---------------------------- MODULE Spec2Model ----------------------------
(***************************************************************************)
(* The interactive command loops of 00_simple_llm.py and                   *)
(* 01_simple_agent.py, with the start-up code that precedes them.          *)
(*                                                                         *)
(* A Python string is a sequence of characters, so that str.strip() and    *)
(* str.lower() are computed character by character.  A character is a      *)
(* string: the character itself for U+0001 to U+00FF, and its code point   *)
(* written "U+XXXX" for the backtick and for the characters beyond U+00FF  *)
(* that the tables below name.  The tables hold what str.isspace() and     *)
(* str.lower() do on these characters.                                     *)
(*                                                                         *)
(* What the process writes to standard output is the sequence `out', one   *)
(* record for each print; the emoji that open the printed labels are left  *)
(* out of the label texts.  The language model, the agent framework and    *)
(* the terminal are outside the repository: what input() and               *)
(* agent.invoke() deliver, and where a SIGINT lands, is chosen             *)
(* nondeterministically from the outcomes Python allows.                   *)
(***************************************************************************)
EXTENDS Integers, Sequences, FiniteSets

VARIABLES
    env_key,  \* whether GOOGLE_API_KEY is set once the .env files are loaded
    proc,     \* per script: the state of the process that runs it
    hist      \* per script: what the terminal and the backend did last

vars == <<env_key, proc, hist>>

Scripts == {"simple_llm", "simple_agent"}

----------------------------------------------------------------------------
(* Bounds *)

\* input() is called at most this many times
MaxReads == 2
\* every line over Alphabet up to this length is a possible input line
MaxLineLen == 2

----------------------------------------------------------------------------
(* Python strings *)

\* the characters c with c.isspace(): what str.strip() removes
Whitespace ==
    { "\t", "\n", "", "\f", "\r", "", "", "", "", " ",
      "", " ", "U+1680", "U+2000", "U+2001", "U+2002", "U+2003", "U+2004", "U+2005", "U+2006",
      "U+2007", "U+2008", "U+2009", "U+200A", "U+2028", "U+2029", "U+202F", "U+205F", "U+3000" }

\* c and c.lower() for every character of U+0001..U+00FF, U+0130, U+212A and
\* U+212B that str.lower() changes; capital sigma is lowered by its context
LowerPairs ==
    { <<"A", <<"a">>>>, <<"B", <<"b">>>>, <<"C", <<"c">>>>, <<"D", <<"d">>>>,
      <<"E", <<"e">>>>, <<"F", <<"f">>>>, <<"G", <<"g">>>>, <<"H", <<"h">>>>,
      <<"I", <<"i">>>>, <<"J", <<"j">>>>, <<"K", <<"k">>>>, <<"L", <<"l">>>>,
      <<"M", <<"m">>>>, <<"N", <<"n">>>>, <<"O", <<"o">>>>, <<"P", <<"p">>>>,
      <<"Q", <<"q">>>>, <<"R", <<"r">>>>, <<"S", <<"s">>>>, <<"T", <<"t">>>>,
      <<"U", <<"u">>>>, <<"V", <<"v">>>>, <<"W", <<"w">>>>, <<"X", <<"x">>>>,
      <<"Y", <<"y">>>>, <<"Z", <<"z">>>>, <<"À", <<"à">>>>, <<"Á", <<"á">>>>,
      <<"Â", <<"â">>>>, <<"Ã", <<"ã">>>>, <<"Ä", <<"ä">>>>, <<"Å", <<"å">>>>,
      <<"Æ", <<"æ">>>>, <<"Ç", <<"ç">>>>, <<"È", <<"è">>>>, <<"É", <<"é">>>>,
      <<"Ê", <<"ê">>>>, <<"Ë", <<"ë">>>>, <<"Ì", <<"ì">>>>, <<"Í", <<"í">>>>,
      <<"Î", <<"î">>>>, <<"Ï", <<"ï">>>>, <<"Ð", <<"ð">>>>, <<"Ñ", <<"ñ">>>>,
      <<"Ò", <<"ò">>>>, <<"Ó", <<"ó">>>>, <<"Ô", <<"ô">>>>, <<"Õ", <<"õ">>>>,
      <<"Ö", <<"ö">>>>, <<"Ø", <<"ø">>>>, <<"Ù", <<"ù">>>>, <<"Ú", <<"ú">>>>,
      <<"Û", <<"û">>>>, <<"Ü", <<"ü">>>>, <<"Ý", <<"ý">>>>, <<"Þ", <<"þ">>>>,
      <<"U+0130", <<"i", "U+0307">>>>, <<"U+212A", <<"k">>>>, <<"U+212B", <<"å">>>> }

CapitalSigma == "U+03A3"
SmallSigma == "U+03C3"
FinalSigma == "U+03C2"

\* the characters the final-sigma rule of str.lower() skips (Case_Ignorable)
CaseIgnorable ==
    { "'", ".", ":", "^", "U+0060", "¨", "­", "¯", "´", "·",
      "¸", "U+0307" }

\* the cased characters among those the rule does not skip
Cased ==
    { "A", "B", "C", "D", "E", "F", "G", "H", "I", "J",
      "K", "L", "M", "N", "O", "P", "Q", "R", "S", "T",
      "U", "V", "W", "X", "Y", "Z", "a", "b", "c", "d",
      "e", "f", "g", "h", "i", "j", "k", "l", "m", "n",
      "o", "p", "q", "r", "s", "t", "u", "v", "w", "x",
      "y", "z", "ª", "µ", "º", "À", "Á", "Â", "Ã", "Ä",
      "Å", "Æ", "Ç", "È", "É", "Ê", "Ë", "Ì", "Í", "Î",
      "Ï", "Ð", "Ñ", "Ò", "Ó", "Ô", "Õ", "Ö", "Ø", "Ù",
      "Ú", "Û", "Ü", "Ý", "Þ", "ß", "à", "á", "â", "ã",
      "ä", "å", "æ", "ç", "è", "é", "ê", "ë", "ì", "í",
      "î", "ï", "ð", "ñ", "ò", "ó", "ô", "õ", "ö", "ø",
      "ù", "ú", "û", "ü", "ý", "þ", "ÿ", "U+0130", "U+212A", "U+212B",
      "U+03A3", "U+03C3", "U+03C2" }

\* str.lower() on a one-character string other than capital sigma
lower_char(c) ==
    IF \E p \in LowerPairs : p[1] = c
    THEN (CHOOSE p \in LowerPairs : p[1] = c)[2]
    ELSE <<c>>

\* whether the capital sigma at s[i] ends a word: a cased character before
\* it and none after it, the skipped characters aside
final_sigma(s, i) ==
    LET before == { j \in 1..(i - 1) : s[j] \notin CaseIgnorable }
        after == { k \in (i + 1)..Len(s) : s[k] \notin CaseIgnorable }
        last == CHOOSE j \in before : \A x \in before : x <= j
        next == CHOOSE k \in after : \A x \in after : k <= x
    IN  /\ before # {}
        /\ s[last] \in Cased
        /\ after = {} \/ s[next] \notin Cased

RECURSIVE lower_from(_, _)
lower_from(s, i) ==
    IF i > Len(s)
    THEN <<>>
    ELSE (IF s[i] = CapitalSigma
          THEN (IF final_sigma(s, i) THEN <<FinalSigma>> ELSE <<SmallSigma>>)
          ELSE lower_char(s[i]))
         \o lower_from(s, i + 1)

\* str.lower()
lower(s) == lower_from(s, 1)

RECURSIVE lstrip(_)
lstrip(s) ==
    IF s # <<>> /\ Head(s) \in Whitespace THEN lstrip(Tail(s)) ELSE s

RECURSIVE rstrip(_)
rstrip(s) ==
    IF s # <<>> /\ s[Len(s)] \in Whitespace
    THEN rstrip(SubSeq(s, 1, Len(s) - 1))
    ELSE s

\* str.strip()
strip(s) == rstrip(lstrip(s))

----------------------------------------------------------------------------
(* What the terminal and the backend can deliver *)

Alphabet == {" ", "q"}

SampleLines ==
    { <<"q","u","i","t">>, <<"Q","U","I","T">>, <<"Q","u","i","T"," ">>,
      <<"e","x","i","t">>, <<" ","E","x","I","t","\t">>, <<"E","X","I","T">>,
      <<"Q">>, <<" ","Q"," ">>, <<"q","Q">>,
      <<"\t">>, <<" ","\t"," ">>, <<"h","i">>, <<" ","H","i"," ">>,
      <<"q","u","i","t","s">>, <<"q","u"," ","i","t">>,
      <<"e","x","i","t"," ","n","o","w">>,
      <<"">>, <<"","q","u","i","t","">>, <<" ","U+2003">>,
      <<"U+3000","E","x","i","t","">>, <<"h","i","U+2028">>,
      <<"Q","U","U+0130","T">>, <<"É">>, <<"U+212A">>,
      <<"e","U+03A3">> }

Lines == UNION { [1..k -> Alphabet] : k \in 0..MaxLineLen } \cup SampleLines

NoExc == [type |-> "None", msg |-> ""]
\* input() at end of input: EOFError("EOF when reading a line") when stdin
\* or stdout is not a terminal, EOFError() with no message when both are
EOFMessages == {"EOF when reading a line", ""}
EOFError(msg) == [type |-> "EOFError", msg |-> msg]
KeyboardInterrupt == [type |-> "KeyboardInterrupt", msg |-> ""]
TransportError == [type |-> "ConnectionError", msg |-> "connection lost"]
ValidationError == [type |-> "ValidationError", msg |-> "malformed arguments"]
ConfigurationError ==
    [type |-> "DefaultCredentialsError", msg |-> "credentials were not found"]
\* result['output'] on a dict without that key
KeyError == [type |-> "KeyError", msg |-> "'output'"]
\* sys.exit(code); SystemExit() carries the code 0
SystemExit(code) == [type |-> "SystemExit", msg |-> "", code |-> code]

\* the classes `except Exception' catches; KeyboardInterrupt and SystemExit
\* are BaseExceptions and are not among them
ExceptionSubclasses ==
    {"EOFError", "ConnectionError", "ValidationError", "KeyError",
     "RuntimeError", "DefaultCredentialsError"}

\* what one call of input() delivers: a line, or an exception
LineRead(l) == [kind |-> "line", text |-> l, exc |-> NoExc]
InputRaises(e) == [kind |-> "raise", text |-> <<>>, exc |-> e]

\* the dicts agent.invoke() can return
Results ==
    { [input |-> "request", output |-> "Hi there!"], [input |-> "request"] }

\* the ordinary exceptions agent.invoke() can raise
InvokeErrors == {TransportError, ValidationError}

\* what one call of agent.invoke() delivers: a dict, or an exception
Returns(r) == [kind |-> "return", value |-> r, exc |-> NoExc]
Raises(e) == [kind |-> "raise", value |-> [input |-> "request"], exc |-> e]

\* where a SIGINT can land in a pass of the loop once input() or
\* agent.invoke() is left.  The KeyboardInterrupt is raised inside the try
\* anywhere in the try body, and outside the try at the prints of the two
\* except clauses and at the jump back to `while True:' (that of `continue'
\* too).  In the try body it is raised
\*   "read":     at the return of input() or of .strip(), before user_input
\*               is assigned;
\*   "body_cut": once user_input is assigned (at the return of .lower()) or
\*               at the return of agent.invoke(), and in the print of the
\*               branch before any of its text is written;
\*   "body":     at the print of the branch once its text is written.
\* At the goodbye of `except KeyboardInterrupt' it is raised once the text
\* is written or, with _cut, before any of it is.  The print of `except
\* Exception' written and then interrupted is the interrupt at the jump back.
\* After the jump back the pass ends in the next input(), inside the try
\* again: "prompt_cut" is the SIGINT that comes while input() writes its
\* prompt and leaves input() as KeyboardInterrupt before the text is out.
BodyPoints == {"read", "body", "body_cut"}
GoodbyePoints == {"goodbye", "goodbye_cut"}
PromptPoints == {"prompt_cut"}
SigintPoints ==
    BodyPoints \cup GoodbyePoints \cup PromptPoints \cup {"handler", "loop_head"}

\* the SIGINTs of one pass: none, one, or one caught in the try and a
\* second in the goodbye of the clause that caught it
NoSigints == {}
Sigints ==
    { {p} : p \in SigintPoints }
      \cup { {b, g} : b \in BodyPoints \cup PromptPoints, g \in GoodbyePoints }

\* the SIGINTs of the first input(), those of start-up apart
FirstPromptSigints ==
    { {p} : p \in PromptPoints }
      \cup { {p, g} : p \in PromptPoints, g \in GoodbyePoints }

NoEvent == [kind |-> "none", text |-> <<>>, exc |-> NoExc]
NoOutcome == [kind |-> "none", value |-> [input |-> "request"], exc |-> NoExc]
NoRequest == <<"<none>">>

Printed(kind, label, arg) == [kind |-> kind, label |-> label, arg |-> arg]

----------------------------------------------------------------------------
(* The process *)

Running == <<>>
Exited(status) == <<status>>

\* a process before the interpreter starts on the script
NewProcess ==
    [pc |-> "Start", user_input |-> NoRequest, inflight |-> NoRequest,
     invoked |-> 0, out |-> <<>>, exit |-> Running]

NotRun == [NewProcess EXCEPT !.pc = "NotRun"]

IsException(e) == e.type \in ExceptionSubclasses

\* the interpreter's end on an exception nothing catches: SystemExit gives its
\* code, KeyboardInterrupt the death by SIGINT (wait status -2), any other a
\* traceback and status 1
uncaught_status(e) ==
    IF e.type = "SystemExit" THEN e.code
    ELSE IF e.type = "KeyboardInterrupt" THEN -2
    ELSE 1

----------------------------------------------------------------------------
(* 00_simple_llm.py *)

llm_prompt == Printed("prompt", "\nYour question: ", "")

\* the list ['quit', 'exit', 'q'] of the exit check
llm_exit_commands ==
    { <<"q","u","i","t">>, <<"e","x","i","t">>, <<"q">> }

\* `break' leaves the loop, main() returns, the wrapper's try ends and the interpreter exits
\* with status 0
llm_break(st) == [st EXCEPT !.pc = "Terminated", !.exit = Exited(0)]

\* an exception that no clause catches leaves the loop and main(), passes
\* the wrapper's `except Exception'
\* and ends the process
llm_uncaught(st, e) ==
    [st EXCEPT !.pc = "Aborted", !.inflight = NoRequest,
               !.exit = Exited(uncaught_status(e))]

\* the `except KeyboardInterrupt' clause: its print, where a SIGINT is
\* outside the try, and `break'
llm_except_interrupt(st, sigint) ==
    LET s1 == [st EXCEPT !.inflight = NoRequest]
        s2 == [s1 EXCEPT !.out = Append(@, Printed("goodbye", "\nGoodbye!", ""))]
    IN  IF "goodbye_cut" \in sigint THEN llm_uncaught(s1, KeyboardInterrupt)
        ELSE IF "goodbye" \in sigint THEN llm_uncaught(s2, KeyboardInterrupt)
        ELSE llm_break(s2)

\* the end of a pass that goes on: the jump back to `while True:', where a
\* SIGINT is outside the try, and then input() inside the try, which writes
\* its prompt; a SIGINT in that write is raised out of input() with nothing
\* written
llm_loop_head(st, sigint) ==
    IF "loop_head" \in sigint
    THEN llm_uncaught(st, KeyboardInterrupt)
    ELSE IF "prompt_cut" \in sigint
    THEN llm_except_interrupt(st, sigint)
    ELSE [st EXCEPT !.pc = "Idle", !.inflight = NoRequest,
                    !.out = Append(@, llm_prompt)]

\* the `except Exception' clause: its print, where a SIGINT is outside the
\* try, and the end of the pass
llm_except_exception(st, e, sigint) ==
    IF "handler" \in sigint
    THEN llm_uncaught(st, KeyboardInterrupt)
    ELSE llm_loop_head([st EXCEPT !.out = Append(@, Printed("error", "\nError: ", e.msg))],
                       sigint)

\* llm_except with `break' after the print of the `except Exception' clause
llm_except_ends_session(st, e, sigint) ==
    IF e.type = "KeyboardInterrupt" THEN llm_except_interrupt(st, sigint)
    ELSE IF IsException(e)
    THEN IF "handler" \in sigint
         THEN llm_uncaught(st, KeyboardInterrupt)
         ELSE llm_break([st EXCEPT !.inflight = NoRequest,
                                   !.out = Append(@, Printed("error", "\nError: ", e.msg))])
    ELSE llm_uncaught(st, e)

\* llm_except without the `except KeyboardInterrupt' clause: the interrupt
\* passes the wrapper's `except Exception' too and ends the process
llm_except_no_interrupt_clause(st, e, sigint) ==
    IF IsException(e) THEN llm_except_exception(st, e, sigint)
    ELSE llm_uncaught(st, e)

\* the except clauses of the loop's try, in their order
llm_except(st, e, sigint) ==
    IF e.type = "KeyboardInterrupt" THEN llm_except_interrupt(st, sigint)
    ELSE IF IsException(e) THEN llm_except_exception(st, e, sigint)
    ELSE llm_uncaught(st, e)

\* a statement of the try body that ends in a print, and what follows it:
\* a SIGINT before or at the print is raised inside the try and goes to the
\* except clauses
llm_print_in_try(st, rec, sigint, then) ==
    IF "body_cut" \in sigint THEN llm_except(st, KeyboardInterrupt, sigint)
    ELSE IF "body" \in sigint
    THEN llm_except([st EXCEPT !.out = Append(@, rec)], KeyboardInterrupt, sigint)
    ELSE then

\* llm_loop_input with the exit check on user_input instead of
\* user_input.lower()
llm_loop_input_case_sensitive(st, ev, sigint) ==
    IF ev.kind = "raise"
    THEN llm_except(st, ev.exc, sigint)
    ELSE IF "read" \in sigint
    THEN llm_except(st, KeyboardInterrupt, sigint)
    ELSE LET user_input == strip(ev.text)
             s1 == [st EXCEPT !.user_input = user_input]
             goodbye == Printed("goodbye", "Goodbye!", "")
             processing == Printed("processing", "\nProcessing your request...", "")
         IN  IF "body_cut" \in sigint
             THEN llm_except(s1, KeyboardInterrupt, sigint)
             ELSE IF user_input \in llm_exit_commands
             THEN llm_print_in_try(s1, goodbye, sigint,
                      llm_break([s1 EXCEPT !.out = Append(@, goodbye)]))
             ELSE IF user_input = <<>>
             THEN llm_loop_head(s1, sigint)
             ELSE llm_print_in_try(s1, processing, sigint,
                      [s1 EXCEPT !.pc = "Dispatching",
                                 !.out = Append(@, processing),
                                 !.inflight = user_input,
                                 !.invoked = @ + 1])

\* one pass of the loop body from input() to the call of agent.invoke():
\* the line is stripped and assigned, tested for the exit commands, then for
\* being empty, and all of it is inside the try
llm_loop_input(st, ev, sigint) ==
    IF ev.kind = "raise"
    THEN llm_except(st, ev.exc, sigint)
    ELSE IF "read" \in sigint
    THEN llm_except(st, KeyboardInterrupt, sigint)
    ELSE LET user_input == strip(ev.text)
             s1 == [st EXCEPT !.user_input = user_input]
             goodbye == Printed("goodbye", "Goodbye!", "")
             processing == Printed("processing", "\nProcessing your request...", "")
         IN  IF "body_cut" \in sigint
             THEN llm_except(s1, KeyboardInterrupt, sigint)
             ELSE IF lower(user_input) \in llm_exit_commands
             THEN llm_print_in_try(s1, goodbye, sigint,
                      llm_break([s1 EXCEPT !.out = Append(@, goodbye)]))
             ELSE IF user_input = <<>>
             THEN llm_loop_head(s1, sigint)
             ELSE llm_print_in_try(s1, processing, sigint,
                      [s1 EXCEPT !.pc = "Dispatching",
                                 !.out = Append(@, processing),
                                 !.inflight = user_input,
                                 !.invoked = @ + 1])

\* llm_loop_invoke with the label of the answer printed before
\* result['output'] is known to be there: a dict without it yields a second
\* outcome
llm_loop_invoke_two_outcomes(st, oc, sigint) ==
    IF oc.kind = "raise"
    THEN llm_except(st, oc.exc, sigint)
    ELSE IF "body_cut" \in sigint
    THEN llm_except(st, KeyboardInterrupt, sigint)
    ELSE IF "output" \notin DOMAIN oc.value
    THEN llm_except([st EXCEPT !.out = Append(@, Printed("answer",
                                  "\nAgent Response: ", ""))],
                    KeyError, sigint)
    ELSE LET answer == Printed("answer", "\nAgent Response: ", oc.value.output)
         IN  llm_print_in_try(st, answer, sigint,
                 llm_loop_head([st EXCEPT !.out = Append(@, answer)], sigint))

\* the rest of the loop body, from the return of agent.invoke(): a SIGINT
\* at the return is raised before the f-string is evaluated, and the
\* f-string raises KeyError before anything is printed
llm_loop_invoke(st, oc, sigint) ==
    IF oc.kind = "raise"
    THEN llm_except(st, oc.exc, sigint)
    ELSE IF "body_cut" \in sigint
    THEN llm_except(st, KeyboardInterrupt, sigint)
    ELSE IF "output" \notin DOMAIN oc.value
    THEN llm_except(st, KeyError, sigint)
    ELSE LET answer == Printed("answer", "\nAgent Response: ", oc.value.output)
         IN  llm_print_in_try(st, answer, sigint,
                 llm_loop_head([st EXCEPT !.out = Append(@, answer)], sigint))

\* what main() prints before it builds the model, before it builds the
\* agent, and between the agent and the loop
llm_print_init == << Printed("banner", "Initializing language model for agent...", "") >>
llm_print_creating ==
    << Printed("banner", "Creating agent with dummy tool (conversational focus)...", "") >>
llm_print_header ==
    << Printed("banner", "Simple Agent Demo - Agent Framework Without Tools", ""),
       Printed("banner", "This agent demonstrates basic conversation without SQL tools.", ""),
       Printed("banner", "Type 'quit' or 'exit' to stop.\n", ""),
       Printed("banner", "Agent configuration:", ""),
       Printed("banner", "=", ""),
       Printed("banner", "Agent type: ", ""),
       Printed("banner", "Available tools: ", ""),
       Printed("banner", "LLM model: ", ""),
       Printed("banner", "Agent verbose mode: ", ""),
       Printed("banner", "=", "") >>

\* what the wrapper's `except Exception' prints: the message and the tips
llm_print_wrapper(e) ==
    << Printed("startup_error", "Error occurred: ", e.msg),
       Printed("banner", "\nTroubleshooting tips:", ""),
       Printed("banner", "1. Make sure your .env file contains GOOGLE_API_KEY", ""),
       Printed("banner", "2. Verify your virtual environment is activated", ""),
       Printed("banner", "3. Check that you've installed requirements", ""),
       Printed("banner", "4. Ensure you have internet connection for API calls", "") >>

\* the steps of start-up that can raise
llm_startup_failures == {"llm", "agent"}

\* all that the script prints up to the loop, or up to its end when the
\* step `fails' raises and the wrapper reports it
llm_startup_prints(fails) ==
    IF fails = "llm" THEN llm_print_init \o llm_print_wrapper(ConfigurationError)
    ELSE IF fails = "agent"
    THEN llm_print_init \o llm_print_creating \o llm_print_wrapper(ConfigurationError)
    ELSE llm_print_init \o llm_print_creating \o llm_print_header

\* the script up to the loop: main() under the wrapper of the last lines.
\* The model's constructor is given whatever os.environ.get returns, None
\* included; `fails' is the step that raises, "none" when all return.  A
\* SIGINT is named by the number of prints done when it is raised: it
\* passes the wrapper's `except Exception' and ends the process.  After the
\* wrapper's prints the script ends: status 0.  `first' are the SIGINTs of
\* the first input() of the loop.
llm_startup(st, api_key, fails, sigint, first) ==
    LET prints == llm_startup_prints(fails)
    IN  IF sigint # {}
        THEN LET done == CHOOSE k \in sigint : \A j \in sigint : k <= j
             IN  llm_uncaught([st EXCEPT !.out = @ \o SubSeq(prints, 1, done)],
                              KeyboardInterrupt)
        ELSE IF fails \in llm_startup_failures
        THEN [st EXCEPT !.pc = "Aborted", !.out = @ \o prints, !.exit = Exited(0)]
        ELSE llm_loop_head([st EXCEPT !.out = @ \o prints], first)

----------------------------------------------------------------------------
(* 01_simple_agent.py *)

agent_prompt == Printed("prompt", "Your question: ", "")

\* the exit list without its short form
agent_exit_commands_no_q ==
    { <<"q","u","i","t">>, <<"e","x","i","t">> }

\* the list ['quit', 'exit', 'q'] of the exit check
agent_exit_commands ==
    { <<"q","u","i","t">>, <<"e","x","i","t">>, <<"q">> }

\* `break' leaves the loop, main() returns and the interpreter exits
\* with status 0
agent_break(st) == [st EXCEPT !.pc = "Terminated", !.exit = Exited(0)]

\* an exception that no clause catches leaves the loop and main()
\* and ends the process
agent_uncaught(st, e) ==
    [st EXCEPT !.pc = "Aborted", !.inflight = NoRequest,
               !.exit = Exited(uncaught_status(e))]

\* the `except KeyboardInterrupt' clause: its print, where a SIGINT is
\* outside the try, and `break'
agent_except_interrupt(st, sigint) ==
    LET s1 == [st EXCEPT !.inflight = NoRequest]
        s2 == [s1 EXCEPT !.out = Append(@, Printed("goodbye", "\nGoodbye!", ""))]
    IN  IF "goodbye_cut" \in sigint THEN agent_uncaught(s1, KeyboardInterrupt)
        ELSE IF "goodbye" \in sigint THEN agent_uncaught(s2, KeyboardInterrupt)
        ELSE agent_break(s2)

\* the end of a pass that goes on: the jump back to `while True:', where a
\* SIGINT is outside the try, and then input() inside the try, which writes
\* its prompt; a SIGINT in that write is raised out of input() with nothing
\* written
agent_loop_head(st, sigint) ==
    IF "loop_head" \in sigint
    THEN agent_uncaught(st, KeyboardInterrupt)
    ELSE IF "prompt_cut" \in sigint
    THEN agent_except_interrupt(st, sigint)
    ELSE [st EXCEPT !.pc = "Idle", !.inflight = NoRequest,
                    !.out = Append(@, agent_prompt)]

\* the `except Exception' clause: its print, where a SIGINT is outside the
\* try, and the end of the pass
agent_except_exception(st, e, sigint) ==
    IF "handler" \in sigint
    THEN agent_uncaught(st, KeyboardInterrupt)
    ELSE agent_loop_head([st EXCEPT !.out = Append(@, Printed("error", "\nError: ", e.msg))],
                       sigint)

\* agent_except without the `except Exception' clause: the exception
\* leaves main() and the interpreter exits with status 1
agent_except_uncaught(st, e, sigint) ==
    IF e.type = "KeyboardInterrupt" THEN agent_except_interrupt(st, sigint)
    ELSE agent_uncaught(st, e)

\* the except clauses of the loop's try, in their order
agent_except(st, e, sigint) ==
    IF e.type = "KeyboardInterrupt" THEN agent_except_interrupt(st, sigint)
    ELSE IF IsException(e) THEN agent_except_exception(st, e, sigint)
    ELSE agent_uncaught(st, e)

\* a statement of the try body that ends in a print, and what follows it:
\* a SIGINT before or at the print is raised inside the try and goes to the
\* except clauses
agent_print_in_try(st, rec, sigint, then) ==
    IF "body_cut" \in sigint THEN agent_except(st, KeyboardInterrupt, sigint)
    ELSE IF "body" \in sigint
    THEN agent_except([st EXCEPT !.out = Append(@, rec)], KeyboardInterrupt, sigint)
    ELSE then

\* agent_loop_input without .strip() on what input() returns
agent_loop_input_unstripped(st, ev, sigint) ==
    IF ev.kind = "raise"
    THEN agent_except(st, ev.exc, sigint)
    ELSE IF "read" \in sigint
    THEN agent_except(st, KeyboardInterrupt, sigint)
    ELSE LET user_input == ev.text
             s1 == [st EXCEPT !.user_input = user_input]
             goodbye == Printed("goodbye", "Goodbye!", "")
             processing == Printed("processing", "\nProcessing your request...", "")
         IN  IF "body_cut" \in sigint
             THEN agent_except(s1, KeyboardInterrupt, sigint)
             ELSE IF lower(user_input) \in agent_exit_commands
             THEN agent_print_in_try(s1, goodbye, sigint,
                      agent_break([s1 EXCEPT !.out = Append(@, goodbye)]))
             ELSE IF user_input = <<>>
             THEN agent_loop_head(s1, sigint)
             ELSE agent_print_in_try(s1, processing, sigint,
                      [s1 EXCEPT !.pc = "Dispatching",
                                 !.out = Append(@, processing),
                                 !.inflight = user_input,
                                 !.invoked = @ + 1])

\* one pass of the loop body from input() to the call of agent.invoke():
\* the line is stripped and assigned, tested for the exit commands, then for
\* being empty, and all of it is inside the try
agent_loop_input(st, ev, sigint) ==
    IF ev.kind = "raise"
    THEN agent_except(st, ev.exc, sigint)
    ELSE IF "read" \in sigint
    THEN agent_except(st, KeyboardInterrupt, sigint)
    ELSE LET user_input == strip(ev.text)
             s1 == [st EXCEPT !.user_input = user_input]
             goodbye == Printed("goodbye", "Goodbye!", "")
             processing == Printed("processing", "\nProcessing your request...", "")
         IN  IF "body_cut" \in sigint
             THEN agent_except(s1, KeyboardInterrupt, sigint)
             ELSE IF lower(user_input) \in agent_exit_commands
             THEN agent_print_in_try(s1, goodbye, sigint,
                      agent_break([s1 EXCEPT !.out = Append(@, goodbye)]))
             ELSE IF user_input = <<>>
             THEN agent_loop_head(s1, sigint)
             ELSE agent_print_in_try(s1, processing, sigint,
                      [s1 EXCEPT !.pc = "Dispatching",
                                 !.out = Append(@, processing),
                                 !.inflight = user_input,
                                 !.invoked = @ + 1])

\* the rest of the loop body, from the return of agent.invoke(): a SIGINT
\* at the return is raised before the f-string is evaluated, and the
\* f-string raises KeyError before anything is printed
agent_loop_invoke(st, oc, sigint) ==
    IF oc.kind = "raise"
    THEN agent_except(st, oc.exc, sigint)
    ELSE IF "body_cut" \in sigint
    THEN agent_except(st, KeyboardInterrupt, sigint)
    ELSE IF "output" \notin DOMAIN oc.value
    THEN agent_except(st, KeyError, sigint)
    ELSE LET answer == Printed("answer", "\nResult: ", oc.value.output)
         IN  agent_print_in_try(st, answer, sigint,
                 agent_loop_head([st EXCEPT !.out = Append(@, answer)], sigint))

\* the steps of start-up that can raise
agent_startup_failures == {"llm", "db", "agent"}

\* all that the script prints up to the loop: the two lines of main(), when
\* the key is set and the module-level code raises nothing
agent_startup_prints(api_key, fails) ==
    IF ~api_key \/ fails \in agent_startup_failures
    THEN <<>>
    ELSE << Printed("banner", "SQL Agent Ready! Ask me anything about the database.", ""),
            Printed("banner", "Type 'quit' or 'exit' to stop.\n", "") >>

\* the module-level code, then main() up to the loop.  Nothing catches an
\* exception here: the interpreter prints the traceback to standard error
\* and exits with 1.  A SIGINT is named by the number of prints done when
\* it is raised; `first' are the SIGINTs of the first input() of the loop.
agent_startup(st, api_key, fails, sigint, first) ==
    LET prints == agent_startup_prints(api_key, fails)
    IN  IF sigint # {}
        THEN LET done == CHOOSE k \in sigint : \A j \in sigint : k <= j
             IN  agent_uncaught([st EXCEPT !.out = @ \o SubSeq(prints, 1, done)],
                                KeyboardInterrupt)
        ELSE IF ~api_key
        THEN [st EXCEPT !.pc = "Aborted", !.exit = Exited(1)]
        ELSE IF fails \in agent_startup_failures
        THEN [st EXCEPT !.pc = "Aborted", !.exit = Exited(1)]
        ELSE agent_loop_head([st EXCEPT !.out = @ \o prints], first)

----------------------------------------------------------------------------
(* Either script *)

startup_failures(s) ==
    IF s = "simple_llm" THEN llm_startup_failures ELSE agent_startup_failures

startup_prints(s, api_key, fails) ==
    IF s = "simple_llm" THEN llm_startup_prints(fails)
                        ELSE agent_startup_prints(api_key, fails)

startup(s, st, api_key, fails, sigint, first) ==
    IF s = "simple_llm" THEN llm_startup(st, api_key, fails, sigint, first)
                        ELSE agent_startup(st, api_key, fails, sigint, first)

loop_input(s, st, ev, sigint) ==
    IF s = "simple_llm" THEN llm_loop_input(st, ev, sigint)
                        ELSE agent_loop_input(st, ev, sigint)

loop_invoke(s, st, oc, sigint) ==
    IF s = "simple_llm" THEN llm_loop_invoke(st, oc, sigint)
                        ELSE agent_loop_invoke(st, oc, sigint)

\* the process died of a SIGINT that nothing caught
Killed(st) == st.pc = "Aborted" /\ st.exit = Exited(uncaught_status(KeyboardInterrupt))

----------------------------------------------------------------------------
(* The lines the loop is specified on, stated without strip() and lower() *)

AsciiCapitals ==
    << "A","B","C","D","E","F","G","H","I","J","K","L","M",
       "N","O","P","Q","R","S","T","U","V","W","X","Y","Z" >>

AsciiSmalls ==
    << "a","b","c","d","e","f","g","h","i","j","k","l","m",
       "n","o","p","q","r","s","t","u","v","w","x","y","z" >>

\* t is the part of line l between its leading and its trailing whitespace
IsTrimOf(t, l) ==
    /\ Len(t) <= Len(l)
    /\ \E a \in 0..(Len(l) - Len(t)) :
          /\ t = SubSeq(l, a + 1, a + Len(t))
          /\ \A k \in 1..a : l[k] \in Whitespace
          /\ \A k \in (a + Len(t) + 1)..Len(l) : l[k] \in Whitespace
    /\ t # <<>> => (t[1] \notin Whitespace /\ t[Len(t)] \notin Whitespace)

SameLetter(c, d) ==
    \/ c = d
    \/ \E i \in 1..26 : {c, d} = {AsciiCapitals[i], AsciiSmalls[i]}

ExitWords == { <<"q","u","i","t">>, <<"e","x","i","t">>, <<"q">> }

\* quit, exit or q in any letter case, whitespace around it allowed
IsExitLine(l) ==
    \E w \in ExitWords :
        /\ Len(w) <= Len(l)
        /\ \E a \in 0..(Len(l) - Len(w)) :
              /\ \A k \in 1..a : l[k] \in Whitespace
              /\ \A k \in (a + Len(w) + 1)..Len(l) : l[k] \in Whitespace
              /\ \A i \in 1..Len(w) : SameLetter(l[a + i], w[i])

IsBlankLine(l) == \A i \in 1..Len(l) : l[i] \in Whitespace

\* a line that is to be sent to the backend
IsRequestLine(l) == ~IsBlankLine(l) /\ ~IsExitLine(l)

----------------------------------------------------------------------------
(* What was observed of a run: kept beside the process, never read by it *)

NoHist ==
    [nread |-> 0,
     last_input |-> NoEvent, last_outcome |-> NoOutcome, last_sigint |-> NoSigints,
     request_lines |-> 0, read_errors |-> 0,
     outcomes |-> 0, interrupted_calls |-> 0]

\* input() was called and delivered ev, and the SIGINTs `sigint' came in
\* the rest of the pass
ObserveInput(h, ev, sigint) ==
    [h EXCEPT !.nread = @ + 1,
              !.last_input = ev,
              !.last_outcome = NoOutcome,
              !.last_sigint = sigint,
              !.request_lines = IF ev.kind = "line" /\ IsRequestLine(ev.text)
                                THEN @ + 1 ELSE @,
              !.read_errors = IF /\ ev.kind = "raise"
                                 /\ ev.exc.type = "EOFError"
                                 /\ "handler" \notin sigint
                              THEN @ + 1 ELSE @]

\* agent.invoke() was left with oc, and the SIGINTs `sigint' came in the
\* rest of the pass; the call is interrupted when the pass prints neither
\* an answer nor an error for it
ObserveOutcome(h, oc, sigint) ==
    [h EXCEPT !.last_outcome = oc,
              !.last_sigint = sigint,
              !.outcomes = @ + 1,
              !.interrupted_calls =
                  IF \/ oc.exc = KeyboardInterrupt
                     \/ /\ "body_cut" \in sigint
                        /\ oc.kind = "return"
                     \/ /\ "handler" \in sigint
                        /\ "body_cut" \notin sigint
                        /\ (oc.kind = "raise" \/ "output" \notin DOMAIN oc.value)
                  THEN @ + 1 ELSE @]

----------------------------------------------------------------------------
(* One run of one of the scripts *)

Init ==
    /\ env_key \in BOOLEAN
    /\ \E run \in Scripts :
          proc = [s \in Scripts |-> IF s = run THEN NewProcess ELSE NotRun]
    /\ hist = [s \in Scripts |-> NoHist]

\* input() returns or raises in script s, and the loop runs on to its next
\* blocking call
Input(s, ev, sigint) ==
    /\ proc' = [proc EXCEPT ![s] = loop_input(s, @, ev, sigint)]
    /\ hist' = [hist EXCEPT ![s] = ObserveInput(@, ev, sigint)]

\* agent.invoke() returns or raises in script s, likewise
Outcome(s, oc, sigint) ==
    /\ proc' = [proc EXCEPT ![s] = loop_invoke(s, @, oc, sigint)]
    /\ hist' = [hist EXCEPT ![s] = ObserveOutcome(@, oc, sigint)]

\* every SIGINT of `sigint' lands in the pass: without it the pass ends
\* otherwise
ReadLands(s, ev, sigint) ==
    \A p \in sigint :
        loop_input(s, proc[s], ev, sigint) # loop_input(s, proc[s], ev, sigint \ {p})

InvokeLands(s, oc, sigint) ==
    \A p \in sigint :
        loop_invoke(s, proc[s], oc, sigint) # loop_invoke(s, proc[s], oc, sigint \ {p})

\* what input() and agent.invoke() can deliver
InputEvents ==
    { LineRead(l) : l \in Lines }
        \cup { InputRaises(EOFError(m)) : m \in EOFMessages }
        \cup {InputRaises(KeyboardInterrupt)}

InvokeOutcomes ==
    { Returns(r) : r \in Results } \cup { Raises(e) : e \in InvokeErrors }
        \cup {Raises(KeyboardInterrupt)}

AtPrompt(s) ==
    /\ proc[s].pc = "Idle"
    /\ hist[s].nread < MaxReads

\* the interpreter runs the script up to the first input()
Start(s) ==
    /\ proc[s].pc = "Start"
    /\ \E fails \in {"none"} \cup startup_failures(s) :
          proc' = [proc EXCEPT ![s] = startup(s, @, env_key, fails, NoSigints, NoSigints)]
    /\ UNCHANGED <<env_key, hist>>

\* a SIGINT comes before the loop is entered, or while the first input()
\* writes its prompt
InterruptAtStart(s) ==
    /\ proc[s].pc = "Start"
    /\ \E fails \in {"none"} \cup startup_failures(s) :
          \/ \E done \in 0..Len(startup_prints(s, env_key, fails)) :
                proc' = [proc EXCEPT ![s] =
                            startup(s, @, env_key, fails, {done}, NoSigints)]
          \/ \E first \in FirstPromptSigints :
                /\ startup(s, proc[s], env_key, fails, NoSigints, first)
                      # startup(s, proc[s], env_key, fails, NoSigints, NoSigints)
                /\ proc' = [proc EXCEPT ![s] =
                              startup(s, @, env_key, fails, NoSigints, first)]
    /\ UNCHANGED <<env_key, hist>>

ReadLine(s) ==
    /\ AtPrompt(s)
    /\ \E l \in Lines : Input(s, LineRead(l), NoSigints)
    /\ UNCHANGED env_key

ReadEOF(s) ==
    /\ AtPrompt(s)
    /\ \E m \in EOFMessages : Input(s, InputRaises(EOFError(m)), NoSigints)
    /\ UNCHANGED env_key

\* a SIGINT comes while input() waits for the line
InterruptAtPrompt(s) ==
    /\ AtPrompt(s)
    /\ Input(s, InputRaises(KeyboardInterrupt), NoSigints)
    /\ UNCHANGED env_key

\* a SIGINT comes while input() flushes the prompt: input() drops the
\* KeyboardInterrupt and goes on to read, and nothing has changed
InterruptDiscarded(s) ==
    /\ AtPrompt(s)
    /\ UNCHANGED <<env_key, proc, hist>>

\* SIGINTs come after input() is left
InterruptAfterRead(s) ==
    /\ AtPrompt(s)
    /\ \E ev \in InputEvents, sigint \in Sigints :
          /\ ReadLands(s, ev, sigint)
          /\ Input(s, ev, sigint)
    /\ UNCHANGED env_key

InvokeReturns(s) ==
    /\ proc[s].pc = "Dispatching"
    /\ \E r \in Results : Outcome(s, Returns(r), NoSigints)
    /\ UNCHANGED env_key

InvokeRaises(s) ==
    /\ proc[s].pc = "Dispatching"
    /\ \E e \in InvokeErrors : Outcome(s, Raises(e), NoSigints)
    /\ UNCHANGED env_key

\* a SIGINT comes while agent.invoke() runs
InterruptDuringInvoke(s) ==
    /\ proc[s].pc = "Dispatching"
    /\ Outcome(s, Raises(KeyboardInterrupt), NoSigints)
    /\ UNCHANGED env_key

\* SIGINTs come after agent.invoke() is left
InterruptAfterInvoke(s) ==
    /\ proc[s].pc = "Dispatching"
    /\ \E oc \in InvokeOutcomes, sigint \in Sigints :
          /\ InvokeLands(s, oc, sigint)
          /\ Outcome(s, oc, sigint)
    /\ UNCHANGED env_key

Next ==
    \E s \in Scripts :
        \/ Start(s)
        \/ InterruptAtStart(s)
        \/ ReadLine(s)
        \/ ReadEOF(s)
        \/ InterruptAtPrompt(s)
        \/ InterruptDiscarded(s)
        \/ InterruptAfterRead(s)
        \/ InvokeReturns(s)
        \/ InvokeRaises(s)
        \/ InterruptDuringInvoke(s)
        \/ InterruptAfterInvoke(s)

Spec == Init /\ [][Next]_vars

----------------------------------------------------------------------------
(* The two loops side by side, fed the same events *)

InitLoops ==
    /\ env_key = TRUE
    /\ proc = [s \in Scripts |-> startup(s, NewProcess, TRUE, "none", NoSigints, NoSigints)]
    /\ hist = [s \in Scripts |-> NoHist]

BothInput(ev, sigint) ==
    /\ proc' = [s \in Scripts |-> loop_input(s, proc[s], ev, sigint)]
    /\ hist' = [s \in Scripts |-> ObserveInput(hist[s], ev, sigint)]

BothOutcome(oc, sigint) ==
    /\ proc' = [s \in Scripts |-> loop_invoke(s, proc[s], oc, sigint)]
    /\ hist' = [s \in Scripts |-> ObserveOutcome(hist[s], oc, sigint)]

BothAtPrompt == \A s \in Scripts : AtPrompt(s)

BothDispatching == \A s \in Scripts : proc[s].pc = "Dispatching"

BothReadLine ==
    /\ BothAtPrompt
    /\ \E l \in Lines : BothInput(LineRead(l), NoSigints)
    /\ UNCHANGED env_key

BothReadEOF ==
    /\ BothAtPrompt
    /\ \E m \in EOFMessages : BothInput(InputRaises(EOFError(m)), NoSigints)
    /\ UNCHANGED env_key

BothInterruptAtPrompt ==
    /\ BothAtPrompt
    /\ BothInput(InputRaises(KeyboardInterrupt), NoSigints)
    /\ UNCHANGED env_key

BothInterruptDiscarded ==
    /\ BothAtPrompt
    /\ UNCHANGED <<env_key, proc, hist>>

BothInterruptAfterRead ==
    /\ BothAtPrompt
    /\ \E ev \in InputEvents, sigint \in Sigints :
          /\ \E s \in Scripts : ReadLands(s, ev, sigint)
          /\ BothInput(ev, sigint)
    /\ UNCHANGED env_key

BothInvokeReturns ==
    /\ BothDispatching
    /\ \E r \in Results : BothOutcome(Returns(r), NoSigints)
    /\ UNCHANGED env_key

BothInvokeRaises ==
    /\ BothDispatching
    /\ \E e \in InvokeErrors : BothOutcome(Raises(e), NoSigints)
    /\ UNCHANGED env_key

BothInterruptDuringInvoke ==
    /\ BothDispatching
    /\ BothOutcome(Raises(KeyboardInterrupt), NoSigints)
    /\ UNCHANGED env_key

BothInterruptAfterInvoke ==
    /\ BothDispatching
    /\ \E oc \in InvokeOutcomes, sigint \in Sigints :
          /\ \E s \in Scripts : InvokeLands(s, oc, sigint)
          /\ BothOutcome(oc, sigint)
    /\ UNCHANGED env_key

NextLoops ==
    \/ BothReadLine
    \/ BothReadEOF
    \/ BothInterruptAtPrompt
    \/ BothInterruptDiscarded
    \/ BothInterruptAfterRead
    \/ BothInvokeReturns
    \/ BothInvokeRaises
    \/ BothInterruptDuringInvoke
    \/ BothInterruptAfterInvoke

SpecLoops == InitLoops /\ [][NextLoops]_vars

----------------------------------------------------------------------------
(* Properties *)

Count(seq, kind) == Cardinality({ i \in DOMAIN seq : seq[i].kind = kind })

Kinds(seq) == [i \in DOMAIN seq |-> seq[i].kind]

\* in this step script s got something from input()
ReadStep(s) == hist'[s].nread = hist[s].nread + 1

\* in this step script s got something from agent.invoke()
OutcomeStep(s) == hist'[s].outcomes = hist[s].outcomes + 1

\* no SIGINT came in the pass of this step
NoSigint(s) == hist'[s].last_sigint = NoSigints

ReadRequestLine(s) ==
    /\ ReadStep(s)
    /\ hist'[s].last_input.kind = "line"
    /\ IsRequestLine(hist'[s].last_input.text)

\* agent.invoke() raised an ordinary exception or returned a dict that
\* result['output'] fails on
RequestFailed(s) ==
    /\ OutcomeStep(s)
    /\ \/ /\ hist'[s].last_outcome.kind = "raise"
          /\ hist'[s].last_outcome.exc \in InvokeErrors
       \/ /\ hist'[s].last_outcome.kind = "return"
          /\ "output" \notin DOMAIN hist'[s].last_outcome.value

RequestAnswered(s) ==
    /\ OutcomeStep(s)
    /\ hist'[s].last_outcome.kind = "return"
    /\ "output" \in DOMAIN hist'[s].last_outcome.value

\* input() or agent.invoke() raised KeyboardInterrupt
Interrupted(s) ==
    \/ ReadStep(s) /\ hist'[s].last_input.exc = KeyboardInterrupt
    \/ OutcomeStep(s) /\ hist'[s].last_outcome.exc = KeyboardInterrupt

\* the next input() raised KeyboardInterrupt while writing its prompt
InterruptedInPrompt(s) ==
    /\ ReadStep(s) \/ OutcomeStep(s)
    /\ hist'[s].last_sigint \cap PromptPoints # {}

\* C1: a line that is not blank and not an exit keyword is sent to the
\* backend exactly once, trimmed, and whether the call returns a result or
\* raises an ordinary exception the loop is back in Idle with no further
\* call made (no interrupt coming in between).
C1_OneInvocationPerRequestLine ==
    [][\A s \in Scripts :
         /\ (ReadRequestLine(s) /\ NoSigint(s)) =>
               /\ proc[s].pc = "Idle"
               /\ proc'[s].pc = "Dispatching"
               /\ proc'[s].invoked = proc[s].invoked + 1
               /\ IsTrimOf(proc'[s].inflight, hist'[s].last_input.text)
         /\ ((RequestFailed(s) \/ RequestAnswered(s)) /\ NoSigint(s)) =>
               /\ proc[s].pc = "Dispatching"
               /\ proc'[s].pc = "Idle"
               /\ proc'[s].invoked = proc[s].invoked
               /\ proc'[s].inflight = NoRequest
      ]_vars

\* a request line with whitespace around it was dispatched, the call raised,
\* and the loop is in Idle
C1_Witness ==
    \E s \in Scripts :
        /\ proc[s].pc = "Idle"
        /\ proc[s].invoked = 1
        /\ hist[s].last_input.kind = "line"
        /\ Len(hist[s].last_input.text) > Len(proc[s].user_input)
        /\ hist[s].last_outcome.kind = "raise"
        /\ hist[s].last_outcome.exc = TransportError

\* C2: a line that is empty or all whitespace never reaches the backend: the
\* loop stays in Idle and prompts again (with an interrupt in the pass it
\* says goodbye and is Terminated, or the process is killed, still without
\* a call), and the calls made never outnumber the lines read that are
\* neither blank nor an exit keyword.
C2_BlankLinesNeverInvoke ==
    /\ [](\A s \in Scripts : proc[s].invoked <= hist[s].request_lines)
    /\ [][\A s \in Scripts :
            ( /\ ReadStep(s)
              /\ hist'[s].last_input.kind = "line"
              /\ IsBlankLine(hist'[s].last_input.text) ) =>
                /\ proc[s].pc = "Idle"
                /\ proc'[s].invoked = proc[s].invoked
                /\ proc'[s].inflight = NoRequest
                /\ proc'[s].pc # "Dispatching"
                /\ NoSigint(s) =>
                      /\ proc'[s].pc = "Idle"
                      /\ Kinds(proc'[s].out) = Kinds(proc[s].out) \o <<"prompt">>
                /\ ~NoSigint(s) =>
                      \/ /\ proc'[s].pc = "Terminated"
                         /\ proc'[s].exit = Exited(0)
                         /\ Kinds(proc'[s].out) = Kinds(proc[s].out) \o <<"goodbye">>
                      \/ Killed(proc'[s])
         ]_vars

\* a line of whitespace other than blanks and tabs was read after a request
\* had been served, and the loop prompts again
C2_Witness ==
    \E s \in Scripts :
        /\ hist[s].last_input.kind = "line"
        /\ Len(hist[s].last_input.text) > 0
        /\ IsBlankLine(hist[s].last_input.text)
        /\ hist[s].last_input.text[1] \notin {" ", "\t"}
        /\ proc[s].pc = "Idle"
        /\ proc[s].invoked = 1

\* C3: quit, exit or q, in any letter case and with whitespace around it,
\* takes the loop from Idle to Terminated without a call of the backend
\* (with interrupts in the pass the process may be killed instead, still
\* without a call).
C3_ExitKeywordTerminates ==
    [][\A s \in Scripts :
         ( /\ ReadStep(s)
           /\ hist'[s].last_input.kind = "line"
           /\ IsExitLine(hist'[s].last_input.text) ) =>
             /\ proc[s].pc = "Idle"
             /\ proc'[s].invoked = proc[s].invoked
             /\ proc'[s].inflight = NoRequest
             /\ Count(proc'[s].out, "prompt") = Count(proc[s].out, "prompt")
             /\ \/ proc'[s].pc = "Terminated" /\ proc'[s].exit = Exited(0)
                \/ Killed(proc'[s]) /\ ~NoSigint(s)
      ]_vars

\* an exit keyword written with capitals, between whitespace other than
\* blanks, ended the loop
C3_Witness ==
    \E s \in Scripts :
        /\ hist[s].last_input.kind = "line"
        /\ IsExitLine(hist[s].last_input.text)
        /\ hist[s].last_input.text[1] \in Whitespace \ {" "}
        /\ lower(hist[s].last_input.text) \notin ExitWords
        /\ proc[s].user_input \notin ExitWords
        /\ hist[s].last_sigint = NoSigints
        /\ proc[s].pc = "Terminated"

\* C4: a failed request does not end the session: the loop prints an error
\* and is in Idle, still running; a request line read after a failure is
\* dispatched and its answer printed; and no error aborts a process but one
\* of start-up, before any prompt, read or call (what else ends a process
\* that is not Terminated is a SIGINT).
C4_FailedRequestKeepsSession ==
    /\ [][\A s \in Scripts :
            /\ (RequestFailed(s) /\ NoSigint(s)) =>
                  /\ proc'[s].pc = "Idle"
                  /\ proc'[s].exit = Running
                  /\ Kinds(proc'[s].out) = Kinds(proc[s].out) \o <<"error", "prompt">>
            /\ (ReadRequestLine(s) /\ NoSigint(s) /\ Count(proc[s].out, "error") > 0) =>
                  proc'[s].pc = "Dispatching"
            /\ (RequestAnswered(s) /\ NoSigint(s) /\ Count(proc[s].out, "error") > 0) =>
                  /\ proc'[s].pc = "Idle"
                  /\ Kinds(proc'[s].out) = Kinds(proc[s].out) \o <<"answer", "prompt">>
                  /\ proc'[s].out[Len(proc[s].out) + 1].arg =
                        hist'[s].last_outcome.value.output
         ]_vars
    /\ [](\A s \in Scripts :
            proc[s].pc = "Aborted" =>
                \/ /\ hist[s].nread = 0
                   /\ proc[s].invoked = 0
                   /\ Count(proc[s].out, "prompt") = 0
                \/ /\ hist[s].last_sigint # NoSigints
                   /\ Killed(proc[s]))

\* a request failed, and the next one was answered
C4_Witness ==
    \E s \in Scripts :
        /\ proc[s].pc = "Idle"
        /\ proc[s].invoked = 2
        /\ Count(proc[s].out, "error") = 1
        /\ Count(proc[s].out, "answer") = 1
        /\ hist[s].read_errors = 0
        /\ hist[s].last_outcome.kind = "return"
        /\ "output" \in DOMAIN hist[s].last_outcome.value

\* C5: end of input at the prompt takes the loop to Terminated.
C5_EndOfInputTerminates ==
    \A s \in Scripts :
        (hist[s].last_input.kind = "raise" /\ hist[s].last_input.exc.type = "EOFError")
            => proc[s].pc = "Terminated"

\* C6: with GOOGLE_API_KEY absent the process, once started, has exited with
\* a non-zero status, has shown no prompt and has called no backend.
C6_MissingKeyIsFatal ==
    \A s \in Scripts :
        (~env_key /\ proc[s].pc \notin {"NotRun", "Start"}) =>
            /\ proc[s].pc = "Aborted"
            /\ proc[s].exit \notin {Running, Exited(0)}
            /\ Count(proc[s].out, "prompt") = 0
            /\ proc[s].invoked = 0

\* C7: a KeyboardInterrupt out of input() at the prompt or out of the call
\* of the backend is caught: the loop says goodbye and is Terminated with
\* status 0 (a second SIGINT in that goodbye kills the process instead),
\* and from then on the process prints no prompt and calls no backend.  The
\* same holds when input() raises it while still writing its prompt.
C7_InterruptTerminates ==
    /\ [][\A s \in Scripts :
            Interrupted(s) =>
                /\ proc[s].pc \in {"Idle", "Dispatching"}
                /\ proc'[s].invoked = proc[s].invoked
                /\ proc'[s].inflight = NoRequest
                /\ Count(proc'[s].out, "prompt") = Count(proc[s].out, "prompt")
                /\ \/ /\ NoSigint(s)
                      /\ proc'[s].pc = "Terminated"
                      /\ proc'[s].exit = Exited(0)
                      /\ Kinds(proc'[s].out) = Kinds(proc[s].out) \o <<"goodbye">>
                   \/ /\ hist'[s].last_sigint \in { {g} : g \in GoodbyePoints }
                      /\ Killed(proc'[s])
         ]_vars
    /\ [][\A s \in Scripts :
            InterruptedInPrompt(s) =>
                /\ Count(proc'[s].out, "prompt") = Count(proc[s].out, "prompt")
                /\ proc'[s].inflight = NoRequest
                /\ \/ /\ hist'[s].last_sigint \in { {p} : p \in PromptPoints }
                      /\ proc'[s].pc = "Terminated"
                      /\ proc'[s].exit = Exited(0)
                      /\ proc'[s].out[Len(proc'[s].out)].kind = "goodbye"
                   \/ /\ hist'[s].last_sigint \cap GoodbyePoints # {}
                      /\ Killed(proc'[s])
         ]_vars
    /\ [][\A s \in Scripts :
            proc[s].pc \in {"Terminated", "Aborted"} => proc'[s] = proc[s]
         ]_vars

\* the call of the backend was interrupted and the loop is Terminated
C7_Witness ==
    \E s \in Scripts :
        /\ hist[s].last_outcome.kind = "raise"
        /\ hist[s].last_outcome.exc = KeyboardInterrupt
        /\ hist[s].last_sigint = NoSigints
        /\ proc[s].pc = "Terminated"
        /\ proc[s].invoked >= 1

\* what the loop printed for its requests: answers, errors other than those
\* of a failed read, and the end by interrupt of a call
OutcomesPrinted(s) ==
    Count(proc[s].out, "answer")
      + (Count(proc[s].out, "error") - hist[s].read_errors)
      + hist[s].interrupted_calls

\* C8: at most one call of the backend is in flight, it is in flight exactly
\* while the loop is in Dispatching, and every call that has ended has
\* exactly one outcome: a printed answer, a printed error, or the end of the
\* process by interrupt.
C8_OneOutcomePerRequest ==
    \A s \in Scripts :
        /\ proc[s].invoked - hist[s].outcomes \in {0, 1}
        /\ proc[s].invoked - hist[s].outcomes = 1 <=> proc[s].pc = "Dispatching"
        /\ proc[s].pc = "Dispatching" <=> proc[s].inflight # NoRequest
        /\ Count(proc[s].out, "processing") - proc[s].invoked \in {0, 1}
        /\ Count(proc[s].out, "processing") # proc[s].invoked =>
              (proc[s].pc \in {"Terminated", "Aborted"} /\ hist[s].last_sigint # NoSigints)
        /\ OutcomesPrinted(s) = hist[s].outcomes
        /\ hist[s].interrupted_calls \in {0, 1}
        /\ hist[s].interrupted_calls = 1 => proc[s].pc \in {"Terminated", "Aborted"}
        /\ proc[s].pc = "Dispatching" =>
              proc[s].out[Len(proc[s].out)].kind = "processing"
        /\ proc[s].pc = "Idle" =>
              proc[s].out[Len(proc[s].out)].kind = "prompt"

\* a request has had its outcome, an error printed, and the next is in
\* flight
C8_Witness ==
    \E s \in Scripts :
        /\ proc[s].pc = "Dispatching"
        /\ proc[s].invoked = 2
        /\ hist[s].outcomes = 1
        /\ hist[s].read_errors = 0
        /\ Count(proc[s].out, "error") = 1

\* C9: a loop that reached Terminated exits with status 0, and a process
\* that ended in start-up exits with a non-zero status.
C9_ExitStatus ==
    \A s \in Scripts :
        /\ proc[s].pc = "Terminated" => proc[s].exit = Exited(0)
        /\ (proc[s].pc = "Aborted" /\ Count(proc[s].out, "prompt") = 0) =>
              proc[s].exit \notin {Running, Exited(0)}

\* what script s has printed since its loop began
SinceLoop(s) ==
    LET before == Len(startup(s, NewProcess, TRUE, "none", NoSigints, NoSigints).out) - 1
    IN  SubSeq(proc[s].out, before + 1, Len(proc[s].out))

\* C10: fed the same events, the two loops are in the same state, have made
\* the same calls with the same request, and have printed the same things
\* but for the labels.
C10_LoopsEquivalent ==
    LET a == proc["simple_llm"]
        b == proc["simple_agent"]
        pa == SinceLoop("simple_llm")
        pb == SinceLoop("simple_agent")
    IN  /\ a.pc = b.pc
        /\ a.user_input = b.user_input
        /\ a.inflight = b.inflight
        /\ a.invoked = b.invoked
        /\ a.exit = b.exit
        /\ Len(pa) = Len(pb)
        /\ \A i \in 1..Len(pa) : pa[i].kind = pb[i].kind /\ pa[i].arg = pb[i].arg

\* both loops had a request fail and ended on Q
C10_Witness ==
    \A s \in Scripts :
        /\ proc[s].pc = "Terminated"
        /\ proc[s].invoked = 1
        /\ Count(proc[s].out, "error") = 1
        /\ hist[s].last_input.kind = "line"
        /\ hist[s].last_sigint = NoSigints
        /\ proc[s].user_input = <<"Q">>

=============================================================================
